---- MODULE Spec2Model ----
(***************************************************************************)
(* Event-driven simulation of elastic discs in a box (class Simulator).   *)
(*                                                                         *)
(* A double is modelled as an exact rational <<n, d>> in lowest terms     *)
(* with d > 0; +infinity is <<1, 0>>.  std::sqrt is exact on perfect      *)
(* squares and rounds down to a multiple of 1/SqrtScale otherwise.        *)
(* std::priority_queue is modelled as the binary heap of push_heap and    *)
(* pop_heap over a sequence, ordered by EventEarlier only.                *)
(* Body indices are 0-based as in the source; P_[i] is At(P, i).          *)
(***************************************************************************)
EXTENDS Integers, Sequences, FiniteSets, TLC

VARIABLES cfg_, P_, t_, pq_, undo_, pc, processed, ret, last, runs, iters, pre, runLog,
          redo, ref, capHit

vars == <<cfg_, P_, t_, pq_, undo_, pc, processed, ret, last, runs, iters, pre, runLog,
          redo, ref, capHit>>

(* ------------------------------ bounds -------------------------------- *)
MaxRuns == 2
MaxCap == 4
MaxDepth == 2
MaxIters == 40
SqrtScale == 4

(* --------------------------- double arithmetic ------------------------ *)
Abs(n) == IF n < 0 THEN -n ELSE n

RECURSIVE Gcd(_, _)
Gcd(a, b) == IF b = 0 THEN a ELSE Gcd(b, a % b)

Q(n, d) ==
    LET g == Gcd(Abs(n), Abs(d))
        s == IF d < 0 THEN -1 ELSE 1
    IN  <<(s * n) \div g, (s * d) \div g>>

R(n) == <<n, 1>>
Zero == <<0, 1>>
Inf == <<1, 0>>
isfinite(a) == a[2] # 0

(* Sums and products cancel common factors before multiplying, to stay  *)
(* within the integers of the checker; the values are the exact ones.      *)
RAdd(a, b) ==
    LET g == Gcd(a[2], b[2])
    IN  Q(a[1] * (b[2] \div g) + b[1] * (a[2] \div g), (a[2] \div g) * b[2])
RNeg(a) == <<-a[1], a[2]>>
RSub(a, b) == RAdd(a, RNeg(b))
RMul(a, b) ==
    LET g1 == Gcd(Abs(a[1]), b[2])
        g2 == Gcd(Abs(b[1]), a[2])
    IN  Q((a[1] \div g1) * (b[1] \div g2), (a[2] \div g2) * (b[2] \div g1))
RDiv(a, b) == RMul(a, IF b[1] < 0 THEN <<-b[2], -b[1]>> ELSE <<b[2], b[1]>>)
RLt(a, b) ==
    LET g == Gcd(a[2], b[2])
    IN  a[1] * (b[2] \div g) < b[1] * (a[2] \div g)
RLe(a, b) == ~RLt(b, a)

RECURSIVE ISqrtIn(_, _, _)
ISqrtIn(n, lo, hi) ==
    IF lo >= hi THEN lo
    ELSE LET mid == (lo + hi + 1) \div 2
         IN  IF mid * mid <= n THEN ISqrtIn(n, mid, hi) ELSE ISqrtIn(n, lo, mid - 1)

ISqrt(n) == ISqrtIn(n, 0, IF n < 46340 THEN n ELSE 46340)

IsSquare(n) == ISqrt(n) * ISqrt(n) = n

sqrt(a) ==
    IF IsSquare(a[1]) /\ IsSquare(a[2])
    THEN <<ISqrt(a[1]), ISqrt(a[2])>>
    ELSE Q(ISqrt((a[1] * SqrtScale * SqrtScale) \div a[2]), SqrtScale)

(* -------------------------------- Vec2 -------------------------------- *)
Vec2(x, y) == [x |-> x, y |-> y]
VAdd(a, b) == Vec2(RAdd(a.x, b.x), RAdd(a.y, b.y))
VSub(a, b) == Vec2(RSub(a.x, b.x), RSub(a.y, b.y))
VScale(a, s) == Vec2(RMul(a.x, s), RMul(a.y, s))
dot(a, b) == RAdd(RMul(a.x, b.x), RMul(a.y, b.y))
norm2(a) == RAdd(RMul(a.x, a.x), RMul(a.y, a.y))

(* ------------------------------ Particle ------------------------------ *)
Particle(r, v, rad, m) == [r |-> r, v |-> v, rad |-> rad, m |-> m, coll_count |-> 0]

At(P, i) == P[i + 1]
Put(P, i, p) == [P EXCEPT ![i + 1] = p]

(* -------------------------------- Event ------------------------------- *)
Event(t, a, b, type, collA, collB) ==
    [t |-> t, a |-> a, b |-> b, type |-> type, collA |-> collA, collB |-> collB]

EventEarlier(lhs, rhs) == RLt(rhs.t, lhs.t)

(* ------------------- std::priority_queue<Event, ..., EventEarlier> ---- *)
(* push_heap: move the hole up while the parent compares "less".          *)
RECURSIVE push_heap(_, _, _, _)
push_heap(h, holeIndex, topIndex, value) ==
    LET parent == (holeIndex - 1) \div 2
    IN  IF holeIndex > topIndex /\ EventEarlier(h[parent + 1], value)
        THEN push_heap([h EXCEPT ![holeIndex + 1] = h[parent + 1]], parent, topIndex, value)
        ELSE [h EXCEPT ![holeIndex + 1] = value]

(* adjust_heap, first loop: move the hole down to a leaf along the         *)
(* children that compare "greatest".                                       *)
RECURSIVE sift_down(_, _, _)
sift_down(h, holeIndex, len) ==
    IF holeIndex < (len - 1) \div 2
    THEN LET right == 2 * (holeIndex + 1)
             child == IF EventEarlier(h[right + 1], h[right]) THEN right - 1 ELSE right
         IN  sift_down([h EXCEPT ![holeIndex + 1] = h[child + 1]], child, len)
    ELSE <<h, holeIndex>>

adjust_heap(h, len, value) ==
    LET d == sift_down(h, 0, len)
        h1 == d[1]
        hole == d[2]
        lone == (len % 2 = 0) /\ hole = (len - 2) \div 2
        h2 == IF lone THEN [h1 EXCEPT ![hole + 1] = h1[2 * (hole + 1)]] ELSE h1
        hole2 == IF lone THEN 2 * (hole + 1) - 1 ELSE hole
    IN  push_heap(h2, hole2, 0, value)

pq_push(h, e) == push_heap(Append(h, e), Len(h), 0, e)

pq_top(h) == h[1]

(* Mutant of pq_pop: the top event is not removed.                        *)
pq_pop_keeps(h) == h

pq_pop(h) ==
    IF Len(h) <= 1 THEN <<>>
    ELSE adjust_heap(SubSeq(h, 1, Len(h) - 1), Len(h) - 1, h[Len(h)])

(* ------------------------ collision-time helpers ---------------------- *)
(* Mutant of time_to_wall_x: the wall is reached by the centre, not the    *)
(* rim.                                                                    *)
time_to_wall_x_no_radius(p) ==
    IF RLt(Zero, p.v.x) THEN RDiv(RSub(cfg_.W, p.r.x), p.v.x)
    ELSE IF RLt(p.v.x, Zero) THEN RDiv(RNeg(p.r.x), p.v.x)
    ELSE Inf

time_to_wall_x(p) ==
    IF RLt(Zero, p.v.x) THEN RDiv(RSub(RSub(cfg_.W, p.rad), p.r.x), p.v.x)
    ELSE IF RLt(p.v.x, Zero) THEN RDiv(RSub(p.rad, p.r.x), p.v.x)
    ELSE Inf

time_to_wall_y(p) ==
    IF RLt(Zero, p.v.y) THEN RDiv(RSub(RSub(cfg_.H, p.rad), p.r.y), p.v.y)
    ELSE IF RLt(p.v.y, Zero) THEN RDiv(RSub(p.rad, p.r.y), p.v.y)
    ELSE Inf

(* tcol <= 1e-12: every positive value of the model is a ratio of 32-bit   *)
(* integers, hence above 1e-12, so the test is tcol <= 0.                   *)
within_tolerance(tcol) == RLe(tcol, Zero)

time_to_pp(A, B) ==
    LET dr == VSub(B.r, A.r)
        dv == VSub(B.v, A.v)
        R0 == RAdd(A.rad, B.rad)
        dvdr == dot(dv, dr)
        dvdv == norm2(dv)
        drdr == norm2(dr)
        disc == RSub(RMul(dvdr, dvdr), RMul(dvdv, RSub(drdr, RMul(R0, R0))))
        tcol == RNeg(RDiv(RAdd(dvdr, sqrt(disc)), dvdv))
    IN  IF RLe(Zero, dvdr) THEN Inf
        ELSE IF RLt(disc, Zero) THEN Inf
        ELSE IF within_tolerance(tcol) THEN Inf
        ELSE tcol

(* --------------------------- event scheduling ------------------------- *)
schedule_wall_events(q, P, t, i) ==
    LET p == At(P, i)
        tx == time_to_wall_x(p)
        ty == time_to_wall_y(p)
        q1 == IF isfinite(tx) /\ RLe(RAdd(t, tx), cfg_.T_end)
              THEN pq_push(q, Event(RAdd(t, tx), i, -1, "P_WALL_X", p.coll_count, -1))
              ELSE q
    IN  IF isfinite(ty) /\ RLe(RAdd(t, ty), cfg_.T_end)
        THEN pq_push(q1, Event(RAdd(t, ty), i, -1, "P_WALL_Y", p.coll_count, -1))
        ELSE q1

(* One pair prediction and push, as in the bodies of the pair loops.       *)
schedule_pair(q, P, t, i, j) ==
    LET dt == time_to_pp(At(P, i), At(P, j))
    IN  IF isfinite(dt) /\ RLe(RAdd(t, dt), cfg_.T_end)
        THEN pq_push(q, Event(RAdd(t, dt), i, j, "P_P",
                              At(P, i).coll_count, At(P, j).coll_count))
        ELSE q

RECURSIVE pp_loop(_, _, _, _, _)
pp_loop(q, P, t, i, j) ==
    IF j < Len(P) THEN pp_loop(schedule_pair(q, P, t, i, j), P, t, i, j + 1) ELSE q

schedule_pp_events_for(q, P, t, i) == pp_loop(q, P, t, i, i + 1)

RECURSIVE all_walls(_, _, _, _)
all_walls(q, P, t, i) ==
    IF i < Len(P) THEN all_walls(schedule_wall_events(q, P, t, i), P, t, i + 1) ELSE q

RECURSIVE all_pairs(_, _, _, _)
all_pairs(q, P, t, i) ==
    IF i < Len(P) THEN all_pairs(schedule_pp_events_for(q, P, t, i), P, t, i + 1) ELSE q

schedule_all(q, P, t) == all_pairs(all_walls(q, P, t, 0), P, t, 0)

(* ------------------------------ validation ---------------------------- *)
(* Mutant of valid: the counter of the secondary body is not compared.    *)
valid_primary_only(e, P) ==
    IF e.a >= 0 /\ At(P, e.a).coll_count # e.collA THEN FALSE ELSE TRUE

valid(e, P) ==
    IF e.a >= 0 /\ At(P, e.a).coll_count # e.collA THEN FALSE
    ELSE IF e.type = "P_P" /\ e.b >= 0 /\ At(P, e.b).coll_count # e.collB THEN FALSE
    ELSE TRUE

(* ------------------------------ resolvers ----------------------------- *)
(* Mutant of bounce_wall_x: both velocity components are negated.          *)
bounce_wall_x_flips_both(P, i) ==
    Put(P, i, [At(P, i) EXCEPT !.v = Vec2(RNeg(@.x), RNeg(@.y)),
                               !.coll_count = @ + 1])

bounce_wall_x(P, i) ==
    Put(P, i, [At(P, i) EXCEPT !.v = Vec2(RNeg(@.x), @.y), !.coll_count = @ + 1])

bounce_wall_y(P, i) ==
    Put(P, i, [At(P, i) EXCEPT !.v = Vec2(@.x, RNeg(@.y)), !.coll_count = @ + 1])

(* Mutant of bounce_pp: both bodies' impulses are divided by mA.           *)
bounce_pp_same_mass(P, i, j) ==
    LET A == At(P, i)
        B == At(P, j)
        dr == VSub(B.r, A.r)
        dv == VSub(B.v, A.v)
        dist2 == norm2(dr)
        rel == RDiv(dot(dv, dr), dist2)
        mA == A.m
        mB == B.m
        Jn == VScale(dr, rel)
        impulse == VScale(Jn, RDiv(RMul(RMul(R(2), mA), mB), RAdd(mA, mB)))
        A1 == [A EXCEPT !.v = VAdd(A.v, VScale(impulse, RDiv(R(-1), mA))),
                        !.coll_count = @ + 1]
        B1 == [B EXCEPT !.v = VAdd(B.v, VScale(impulse, RDiv(R(1), mA))),
                        !.coll_count = @ + 1]
    IN  IF RLe(dist2, Zero) THEN P
        ELSE Put(Put(P, i, A1), j, B1)

bounce_pp(P, i, j) ==
    LET A == At(P, i)
        B == At(P, j)
        dr == VSub(B.r, A.r)
        dv == VSub(B.v, A.v)
        dist2 == norm2(dr)
        rel == RDiv(dot(dv, dr), dist2)
        mA == A.m
        mB == B.m
        Jn == VScale(dr, rel)
        impulse == VScale(Jn, RDiv(RMul(RMul(R(2), mA), mB), RAdd(mA, mB)))
        A1 == [A EXCEPT !.v = VAdd(A.v, VScale(impulse, RDiv(R(-1), mA))),
                        !.coll_count = @ + 1]
        B1 == [B EXCEPT !.v = VAdd(B.v, VScale(impulse, RDiv(R(1), mB))),
                        !.coll_count = @ + 1]
    IN  IF RLe(dist2, Zero) THEN P
        ELSE Put(Put(P, i, A1), j, B1)

(* ---------------------------- time advancement ------------------------ *)
(* drift_to: the pair <<bodies, time>> after the call.                     *)
drift_to(P, t, T) ==
    LET dt == RSub(T, t)
    IN  IF RLe(dt, Zero) THEN <<P, t>>
        ELSE <<[k \in 1..Len(P) |-> [P[k] EXCEPT !.r = VAdd(@, VScale(P[k].v, dt))]], T>>

(* ------------------------------- history ------------------------------ *)
(* undo_ is the stack as a sequence, top last.                             *)
SimState(t, P) == [t |-> t, P |-> P]

RECURSIVE Reverse(_)
Reverse(s) == IF s = <<>> THEN <<>> ELSE Append(Reverse(Tail(s)), Head(s))

(* Mutant of snapshot: the trim removes the newest snapshot, not the       *)
(* oldest.                                                                 *)
snapshot_drops_newest(u, t, P) ==
    IF ~cfg_.enable_rollback THEN u
    ELSE LET buf == Reverse(u)
             buf1 == IF buf # <<>> THEN Tail(buf) ELSE buf
             u1 == IF Len(u) >= cfg_.rollback_depth THEN Reverse(buf1) ELSE u
         IN  Append(u1, SimState(t, P))

(* Mutant of snapshot: enable_rollback is not consulted.                   *)
snapshot_unguarded(u, t, P) ==
    LET buf == Reverse(u)
        buf1 == IF buf # <<>> THEN SubSeq(buf, 1, Len(buf) - 1) ELSE buf
        u1 == IF Len(u) >= cfg_.rollback_depth THEN Reverse(buf1) ELSE u
    IN  Append(u1, SimState(t, P))

(* Mutant of snapshot: a full history is emptied, not trimmed by one.       *)
snapshot_evicts_all(u, t, P) ==
    IF ~cfg_.enable_rollback THEN u
    ELSE LET u1 == IF Len(u) >= cfg_.rollback_depth THEN <<>> ELSE u
         IN  Append(u1, SimState(t, P))

snapshot(u, t, P) ==
    IF ~cfg_.enable_rollback THEN u
    ELSE LET buf == Reverse(u)
             buf1 == IF buf # <<>> THEN SubSeq(buf, 1, Len(buf) - 1) ELSE buf
             u1 == IF Len(u) >= cfg_.rollback_depth THEN Reverse(buf1) ELSE u
         IN  Append(u1, SimState(t, P))

(* ------------------------------- inputs ------------------------------- *)
Configs ==
    {c \in [W : {R(6)}, H : {R(4)}, T_end : {R(0), R(6)}, max_events : 0..MaxCap,
            enable_rollback : BOOLEAN, rollback_depth : 0..MaxDepth] :
        \/ c.enable_rollback /\ c.max_events = MaxCap /\ c.T_end = R(6)
        \/ c.enable_rollback /\ c.rollback_depth = 1 /\ c.T_end = R(6)
        \/ c.rollback_depth = 1 /\ c.max_events = MaxCap /\ c.T_end = R(6)
        \/ c.enable_rollback /\ c.rollback_depth = 1 /\ c.max_events = MaxCap}

Positions == {Vec2(R(x), R(2)) : x \in {1, 2, 4, 5}}
Velocities == {Vec2(R(vx), R(vy)) : vx \in {-1, 0, 1}, vy \in {0, 1}}
Masses == {R(1), R(3)}

(* Two discs of radius 1, apart, inside the box, on a common row with a    *)
(* common vertical velocity, so that their contacts are head-on; the left  *)
(* one at rest or moving right, the right one moving.                      *)
Apart(r0, r1) == RLe(R(4), norm2(VSub(r1, r0)))
Aligned(b0, b1) == b0.r.y = b1.r.y /\ b0.v.y = b1.v.y

InitialBodies ==
    {P \in {<<Particle(r0, v0, R(1), R(1)), Particle(r1, v1, R(1), m1)>> :
               r0 \in Positions, v0 \in Velocities, r1 \in Positions,
               v1 \in Velocities, m1 \in Masses} :
        /\ Apart(P[1].r, P[2].r)
        /\ Aligned(P[1], P[2])
        /\ RLt(P[1].r.x, P[2].r.x)
        /\ RLe(Zero, P[1].v.x)
        /\ P[2].v.x # Zero}

(* Three discs on one row of a wider box: resolving a pair leaves a third  *)
(* body to reschedule against, and a wall event of the third body can use  *)
(* up the cap while a pair event of the first two is pending.              *)
TrioConfigs ==
    [W : {R(8)}, H : {R(4)}, T_end : {R(3), R(6)}, max_events : {1, 2},
     enable_rollback : {TRUE}, rollback_depth : {1}]

TrioBodies ==
    {<<Particle(Vec2(R(1), R(2)), Vec2(R(1), R(0)), R(1), R(1)),
       Particle(Vec2(R(4), R(2)), Vec2(R(vx1), R(0)), R(1), R(1)),
       Particle(Vec2(R(7), R(2)), Vec2(R(vx2), R(0)), R(1), R(1))>> :
        vx1 \in {-1, 0}, vx2 \in {-1, 1}}

(* The constructor stores whatever it is given: a body of radius 0.        *)
MalformedConfigs ==
    [W : {R(6)}, H : {R(4)}, T_end : {R(6)}, max_events : {MaxCap},
     enable_rollback : {TRUE}, rollback_depth : {1}]

MalformedBodies ==
    {<<Particle(Vec2(R(1), R(2)), Vec2(R(1), R(0)), R(1), R(1)),
       Particle(Vec2(R(4), R(2)), Vec2(R(-1), R(0)), R(0), R(1))>>}

Inputs ==
    (Configs \X InitialBodies) \cup (TrioConfigs \X TrioBodies)
        \cup (MalformedConfigs \X MalformedBodies)

(* ---------------------------- ghost records --------------------------- *)
NoEvent == Event(Zero, -1, -1, "P_WALL_X", 0, -1)
Sig(e) == [type |-> e.type, a |-> e.a, b |-> e.b, t |-> e.t]
Step(op, e) == [op |-> op, e |-> e]

Init ==
    /\ \E in \in Inputs : cfg_ = in[1] /\ P_ = in[2]
    /\ t_ = Zero
    /\ pq_ = <<>>
    /\ undo_ = <<>>
    /\ pc = "idle"
    /\ processed = 0
    /\ ret = "none"
    /\ last = Step("init", NoEvent)
    /\ runs = 0
    /\ iters = 0
    /\ pre = <<>>
    /\ runLog = <<>>
    /\ redo = <<>>
    /\ ref = [t |-> Zero, P |-> <<>>, capped |-> FALSE, replay |-> FALSE, expect |-> <<>>]
    /\ capHit = FALSE

(* -------------------------------- run() ------------------------------- *)
(* Mutant of LoopCond: the cap is compared with <=.                        *)
LoopCond_off_by_one == Len(pq_) > 0 /\ processed <= cfg_.max_events

LoopCond == Len(pq_) > 0 /\ processed < cfg_.max_events
Breaks == LoopCond /\ RLt(cfg_.T_end, pq_top(pq_).t)
InLoop == pc = "loop" /\ LoopCond /\ ~Breaks

(* run(), entry: schedule_all() and processed = 0.                         *)
RunStart ==
    /\ pc = "idle"
    /\ runs < MaxRuns
    /\ pq_' = schedule_all(pq_, P_, t_)
    /\ processed' = 0
    /\ pc' = "loop"
    /\ runs' = runs + 1
    /\ iters' = 0
    /\ runLog' = <<>>
    /\ last' = Step("seed", NoEvent)
    /\ UNCHANGED <<cfg_, P_, t_, undo_, ret, pre, redo, ref, capHit>>

(* One iteration that pops a stale event: continue.                        *)
RunStale ==
    /\ InLoop
    /\ iters < MaxIters
    /\ ~valid(pq_top(pq_), P_)
    /\ pq_' = pq_pop(pq_)
    /\ iters' = iters + 1
    /\ last' = Step("stale", pq_top(pq_))
    /\ UNCHANGED <<cfg_, P_, t_, undo_, pc, processed, ret, runs, pre, runLog, redo, ref,
                   capHit>>

(* The part every committing iteration shares: snapshot(), drift_to(e.t),  *)
(* processed++, and the bookkeeping of what was committed.                 *)
Commit(e, op) ==
    /\ iters < MaxIters
    /\ iters' = iters + 1
    /\ undo_' = snapshot(undo_, t_, P_)
    /\ t_' = drift_to(P_, t_, e.t)[2]
    /\ processed' = processed + 1
    /\ last' = Step(op, e)
    /\ pre' = Append(pre, [t |-> t_, P |-> P_, ev |-> Sig(e)])
    /\ runLog' = Append(runLog, Sig(e))
    /\ UNCHANGED <<cfg_, pc, ret, runs, redo, ref, capHit>>

RunWallX ==
    /\ InLoop
    /\ valid(pq_top(pq_), P_)
    /\ pq_top(pq_).type = "P_WALL_X"
    /\ LET e == pq_top(pq_)
           d == drift_to(P_, t_, e.t)
           P1 == bounce_wall_x(d[1], e.a)
       IN  /\ P_' = P1
           /\ pq_' = schedule_pp_events_for(
                         schedule_wall_events(pq_pop(pq_), P1, d[2], e.a), P1, d[2], e.a)
           /\ Commit(e, "wall_x")

RunWallY ==
    /\ InLoop
    /\ valid(pq_top(pq_), P_)
    /\ pq_top(pq_).type = "P_WALL_Y"
    /\ LET e == pq_top(pq_)
           d == drift_to(P_, t_, e.t)
           P1 == bounce_wall_y(d[1], e.a)
       IN  /\ P_' = P1
           /\ pq_' = schedule_pp_events_for(
                         schedule_wall_events(pq_pop(pq_), P1, d[2], e.a), P1, d[2], e.a)
           /\ Commit(e, "wall_y")

Min(a, b) == IF a < b THEN a ELSE b
Max(a, b) == IF a < b THEN b ELSE a

(* The loop over k of the P_P case.                                        *)
RECURSIVE resched_pp(_, _, _, _, _, _)
resched_pp(q, P, t, a, b, k) ==
    IF k >= Len(P) THEN q
    ELSE IF k = a \/ k = b THEN resched_pp(q, P, t, a, b, k + 1)
    ELSE LET q1 == schedule_pair(q, P, t, Min(k, a), Max(k, a))
             q2 == schedule_pair(q1, P, t, Min(k, b), Max(k, b))
         IN  resched_pp(q2, P, t, a, b, k + 1)

RunPP ==
    /\ InLoop
    /\ valid(pq_top(pq_), P_)
    /\ pq_top(pq_).type = "P_P"
    /\ LET e == pq_top(pq_)
           d == drift_to(P_, t_, e.t)
           P1 == bounce_pp(d[1], e.a, e.b)
           q1 == schedule_wall_events(pq_pop(pq_), P1, d[2], e.a)
           q2 == schedule_wall_events(q1, P1, d[2], e.b)
       IN  /\ P_' = P1
           /\ pq_' = resched_pp(q2, P1, d[2], e.a, e.b, 0)
           /\ Commit(e, "pp")

(* Loop exit (condition false, or break on an event past the horizon) and  *)
(* the final drift_to(T_end).                                              *)
RunFinish ==
    /\ pc = "loop"
    /\ ~InLoop
    /\ LET d == drift_to(P_, t_, cfg_.T_end)
           capped == processed >= cfg_.max_events
       IN  /\ P_' = d[1]
           /\ t_' = d[2]
           /\ ref' = IF redo = <<>>
                     THEN [t |-> d[2], P |-> d[1], capped |-> capped,
                           replay |-> FALSE, expect |-> <<>>]
                     ELSE [ref EXCEPT !.capped = @ \/ capped, !.replay = TRUE,
                                      !.expect = redo]
    /\ pq_' = IF Breaks THEN pq_pop(pq_) ELSE pq_
    /\ capHit' = (capHit \/ (Len(pq_) > 0 /\ processed >= cfg_.max_events))
    /\ pc' = "idle"
    /\ redo' = <<>>
    /\ last' = Step("finish", NoEvent)
    /\ UNCHANGED <<cfg_, undo_, processed, ret, runs, iters, pre, runLog>>

(* ------------------------------- undo() ------------------------------- *)
UndoFail ==
    /\ pc = "idle"
    /\ ~cfg_.enable_rollback \/ undo_ = <<>>
    /\ ret' = "false"
    /\ last' = Step("undo_fail", NoEvent)
    /\ UNCHANGED <<cfg_, P_, t_, pq_, undo_, pc, processed, runs, iters, pre, runLog, redo, ref,
                   capHit>>

(* Mutant of UndoOk: the pending events are not discarded before the       *)
(* reseeding.                                                              *)
UndoOk_keeps_pending ==
    /\ pc = "idle"
    /\ ~(~cfg_.enable_rollback \/ undo_ = <<>>)
    /\ LET s == undo_[Len(undo_)]
       IN  /\ undo_' = SubSeq(undo_, 1, Len(undo_) - 1)
           /\ t_' = s.t
           /\ P_' = s.P
           /\ pq_' = schedule_all(pq_, s.P, s.t)
    /\ ret' = "true"
    /\ last' = Step("undo_ok", NoEvent)
    /\ pre' = IF pre = <<>> THEN pre ELSE SubSeq(pre, 1, Len(pre) - 1)
    /\ redo' = IF pre = <<>> THEN redo ELSE <<pre[Len(pre)].ev>> \o redo
    /\ UNCHANGED <<cfg_, pc, processed, runs, iters, runLog, ref, capHit>>

UndoOk ==
    /\ pc = "idle"
    /\ ~(~cfg_.enable_rollback \/ undo_ = <<>>)
    /\ LET s == undo_[Len(undo_)]
       IN  /\ undo_' = SubSeq(undo_, 1, Len(undo_) - 1)
           /\ t_' = s.t
           /\ P_' = s.P
           /\ pq_' = schedule_all(<<>>, s.P, s.t)
    /\ ret' = "true"
    /\ last' = Step("undo_ok", NoEvent)
    /\ pre' = IF pre = <<>> THEN pre ELSE SubSeq(pre, 1, Len(pre) - 1)
    /\ redo' = IF pre = <<>> THEN redo ELSE <<pre[Len(pre)].ev>> \o redo
    /\ UNCHANGED <<cfg_, pc, processed, runs, iters, runLog, ref, capHit>>

RunStep == RunStale \/ RunWallX \/ RunWallY \/ RunPP \/ RunFinish

Next == RunStart \/ RunStale \/ RunWallX \/ RunWallY \/ RunPP \/ RunFinish \/ UndoFail \/ UndoOk

Spec == Init /\ [][Next]_vars

(* run() runs its loop to completion once called: weak fairness of the    *)
(* loop steps, WF_vars(RunStep).  Every loop step changes pc or iters, so  *)
(* ENABLED <<RunStep>>_vars is the state predicate RunStepEnabled, and the *)
(* fairness condition is written out with it.                              *)
RunStepEnabled == pc = "loop" /\ (InLoop => iters < MaxIters)

FairSpec == Spec /\ ([]<>(~RunStepEnabled) \/ []<><<RunStep>>_vars)

(* ====================================================================== *)
(*                               Properties                               *)
(* ====================================================================== *)

(* The body state and time just before the most recent commit that has not *)
(* been undone.                                                            *)
Before == pre[Len(pre)]

(* An iteration of the loop of run() is about to pop the event Top.        *)
Top == pq_[1]
Popping ==
    /\ pc = "loop"
    /\ Len(pq_) > 0
    /\ processed < cfg_.max_events
    /\ RLe(Top.t, cfg_.T_end)

(* The counters captured in e equal the live counters of its bodies.       *)
CountersMatch(e) ==
    /\ P_[e.a + 1].coll_count = e.collA
    /\ e.type = "P_P" => P_[e.b + 1].coll_count = e.collB

(* C1. Staleness: a popped event is committed only if the counters it      *)
(* captured equal the live counters of its primary body and, for a pair    *)
(* event, of its secondary body; an event with a changed counter is        *)
(* removed without a snapshot, a time advance, a change of any body or a   *)
(* count toward the processed events.                                      *)
StaleNeverApplied ==
    [][Popping /\ ~CountersMatch(Top) =>
          /\ t_' = t_
          /\ P_' = P_
          /\ undo_' = undo_
          /\ processed' = processed
          /\ Len(pq_') = Len(pq_) - 1]_vars

(* C1 witness: an event of a body that has collided since was discarded.   *)
StaleDiscarded ==
    /\ last.op = "stale"
    /\ P_[last.e.a + 1].coll_count > last.e.collA
    /\ processed >= 1

RECURSIVE SumOver(_, _)
SumOver(f, n) == IF n = 0 THEN Zero ELSE RAdd(f[n], SumOver(f, n - 1))

(* Twice the total kinetic energy, sum of m |v|^2.                         *)
KineticEnergy2(P) == SumOver([k \in 1..Len(P) |-> RMul(P[k].m, norm2(P[k].v))], Len(P))

(* Total momentum, sum of m v.                                             *)
Momentum(P) ==
    Vec2(SumOver([k \in 1..Len(P) |-> RMul(P[k].m, P[k].v.x)], Len(P)),
         SumOver([k \in 1..Len(P) |-> RMul(P[k].m, P[k].v.y)], Len(P)))

(* C2. Kinetic-energy conservation: the pair bounce leaves the total       *)
(* kinetic energy of the two bodies equal to its value before the update.  *)
EnergyConserved ==
    (last.op = "pp" /\ pre # <<>>) => KineticEnergy2(P_) = KineticEnergy2(Before.P)

(* C3. Momentum conservation: the pair bounce leaves the total momentum    *)
(* unchanged, and within run() the total momentum changes only when a wall *)
(* event is committed.                                                     *)
MomentumConserved ==
    [][Momentum(P_') # Momentum(P_) => last'.op \in {"wall_x", "wall_y", "undo_ok"}]_vars

(* C3 witness: a pair event was committed and changed both velocities.     *)
PairBounced ==
    /\ last.op = "pp"
    /\ pre # <<>>
    /\ P_[last.e.a + 1].v # Before.P[last.e.a + 1].v
    /\ P_[last.e.b + 1].v # Before.P[last.e.b + 1].v
    /\ P_[1].m # P_[2].m

(* C4. Rollback exactness: after a run that committed an event, with       *)
(* rollback enabled and depth >= 1, undo() returns true; and every         *)
(* successful undo() sets the time and every field of every body to the    *)
(* values they had just before the most recent commit not yet undone.      *)
RollbackExact ==
    [][/\ (/\ pc = "idle" /\ last.op = "finish" /\ processed >= 1
           /\ cfg_.enable_rollback /\ cfg_.rollback_depth >= 1
           /\ last'.op \in {"undo_ok", "undo_fail"})
          => ret' = "true"
       /\ (pc = "idle" /\ last'.op = "undo_ok" /\ undo_' # undo_)
          => /\ ret' = "true"
             /\ pre # <<>>
             /\ t_' = Before.t
             /\ P_' = Before.P]_vars

(* C4 witness: two successive undo() calls succeeded after a run.          *)
UndoneTwice ==
    /\ last.op = "undo_ok"
    /\ ret = "true"
    /\ Len(redo) = 2
    /\ cfg_.rollback_depth >= 1

(* C5. Rollback replay equivalence: a run() that follows undo() commits    *)
(* the events that were undone, in their order, and ends in the final      *)
(* bodies and time of the run before the undo(), when neither run reached  *)
(* the event cap.                                                          *)
ReplayEquivalent ==
    (pc = "idle" /\ last.op = "finish" /\ ref.replay /\ ~ref.capped
        /\ cfg_.rollback_depth >= 1) =>
        /\ runLog = ref.expect
        /\ t_ = ref.t
        /\ P_ = ref.P

(* C6. Bounded history: the number of retained snapshots never exceeds the *)
(* configured rollback depth.                                              *)
BoundedHistory == Len(undo_) <= cfg_.rollback_depth

(* C7. Failed undo changes nothing: with rollback disabled or no snapshot  *)
(* retained, undo() returns false and leaves time, bodies, pending events  *)
(* and history as they were; with rollback disabled no snapshot is stored. *)
FailedUndoChangesNothing ==
    /\ [](~cfg_.enable_rollback => undo_ = <<>>)
    /\ [][(/\ pc = "idle"
           /\ ~cfg_.enable_rollback \/ undo_ = <<>>
           /\ last'.op \in {"undo_ok", "undo_fail"})
          => /\ ret' = "false"
             /\ t_' = t_
             /\ P_' = P_
             /\ pq_' = pq_
             /\ undo_' = undo_]_vars

(* C7 witness: undo() failed, rollback disabled, after a run that          *)
(* committed events.                                                       *)
UndoRefused ==
    /\ last.op = "undo_fail"
    /\ ret = "false"
    /\ ~cfg_.enable_rollback
    /\ processed >= 2

(* C8. Event cap: a run never commits more than max_events events, a       *)
(* discarded stale event does not count, and when the loop stops the run   *)
(* still drifts every body to the horizon time.                            *)
EventCap ==
    /\ [](processed <= cfg_.max_events)
    /\ [][last'.op = "stale" => processed' = processed]_vars
    /\ [][(pc = "loop" /\ pc' = "idle") =>
             /\ t_' = cfg_.T_end
             /\ \A k \in 1..Len(P_) :
                    P_'[k] = [P_[k] EXCEPT
                                 !.r = VAdd(@, VScale(P_[k].v, RSub(cfg_.T_end, t_)))]]_vars

(* C8 witness: the cap stopped the loop with events still pending, after   *)
(* a stale event had been discarded, and the bodies were drifted.          *)
StoppedByCap ==
    /\ pc = "idle"
    /\ last.op = "finish"
    /\ cfg_.max_events >= 1
    /\ processed = cfg_.max_events
    /\ Len(pq_) > 0
    /\ RLt(Before.t, cfg_.T_end)
    /\ t_ = cfg_.T_end

(* C9. Termination and final time: run() terminates, and on return the     *)
(* simulation time equals the horizon time.                                *)
RunTerminates ==
    /\ (pc = "loop") ~> (pc = "idle")
    /\ []((pc = "idle" /\ last.op = "finish") => t_ = cfg_.T_end)

(* C9 witness: a run returned with the pending set emptied, having         *)
(* committed events.                                                       *)
RanDry ==
    /\ pc = "idle"
    /\ last.op = "finish"
    /\ pq_ = <<>>
    /\ processed >= 1
    /\ t_ = cfg_.T_end

(* The queue that results from pushing the events of s in order.           *)
RECURSIVE Inserted(_)
Inserted(s) == IF s = <<>> THEN <<>> ELSE pq_push(Inserted(SubSeq(s, 1, Len(s) - 1)), s[Len(s)])

(* C10. Determinism under ties: the event retrieved first does not depend  *)
(* on the order in which the pending events were inserted.                 *)
TieBreakFixed ==
    Len(pq_) > 0 => pq_top(Inserted(Reverse(pq_))) = pq_top(Inserted(pq_))

(* The centre of p lies in [rad, W - rad] x [rad, H - rad].                *)
Inside(p) ==
    /\ RLe(p.rad, p.r.x)
    /\ RLe(p.r.x, RSub(cfg_.W, p.rad))
    /\ RLe(p.rad, p.r.y)
    /\ RLe(p.r.y, RSub(cfg_.H, p.rad))

(* C11. Containment: as long as no run was stopped by the event cap with   *)
(* events still pending, every body's centre lies within                   *)
(* [rad, W - rad] x [rad, H - rad] at every committed event time and after *)
(* every completed run.                                                    *)
Containment == ~capHit => \A k \in 1..Len(P_) : Inside(P_[k])

(* C11 witness: a corner hit (both wall events of one body committed at    *)
(* one time) below the cap, with every body inside afterwards.             *)
CornerHitContained ==
    /\ pc = "loop"
    /\ last.op \in {"wall_x", "wall_y"}
    /\ processed < cfg_.max_events
    /\ ~capHit
    /\ \E n \in 1..(Len(runLog) - 1) :
           /\ runLog[n].t = runLog[n + 1].t
           /\ runLog[n].a = runLog[n + 1].a
           /\ {runLog[n].type, runLog[n + 1].type} = {"P_WALL_X", "P_WALL_Y"}
    /\ \A k \in 1..Len(P_) : Inside(P_[k])

(* Positive radii, positive masses and a box of positive width and height. *)
WellFormed ==
    /\ RLt(Zero, cfg_.W)
    /\ RLt(Zero, cfg_.H)
    /\ \A k \in 1..Len(P_) : RLt(Zero, P_[k].rad) /\ RLt(Zero, P_[k].m)

(* C12. Malformed configuration is rejected at construction: no simulator  *)
(* built from a body of non-positive radius or mass, or from a box of      *)
(* non-positive width or height, is usable, so every simulator that has    *)
(* completed a run is well formed.                                         *)
MalformedRejected == (pc = "idle" /\ last.op = "finish") => WellFormed

(* A pair event of bodies i < j carrying their current counters is         *)
(* pending.                                                                *)
PairPending(i, j) ==
    \E n \in 1..Len(pq_) :
        /\ pq_[n].type = "P_P"
        /\ pq_[n].a = i
        /\ pq_[n].b = j
        /\ pq_[n].collA = At(P_, i).coll_count
        /\ pq_[n].collB = At(P_, j).coll_count

(* C13. Rescheduling completeness: at every Select step each unordered     *)
(* pair of bodies whose collision predicted from the current state is      *)
(* finite and within the horizon has a pending pair event carrying both    *)
(* bodies' current counters, whichever of the two bodies changed last.     *)
ReschedulingComplete ==
    pc = "loop" =>
        \A i \in 0..(Len(P_) - 1) : \A j \in (i + 1)..(Len(P_) - 1) :
            LET dt == time_to_pp(At(P_, i), At(P_, j))
            IN  (isfinite(dt) /\ RLe(RAdd(t_, dt), cfg_.T_end)) => PairPending(i, j)

(* The discs i and j do not overlap: centre distance >= sum of radii.      *)
Separate(P, i, j) ==
    LET R0 == RAdd(At(P, i).rad, At(P, j).rad)
    IN  RLe(RMul(R0, R0), norm2(VSub(At(P, j).r, At(P, i).r)))

(* The discs i and j are not approaching: dot(dv, dr) >= 0.                *)
NotApproaching(P, i, j) ==
    RLe(Zero, dot(VSub(At(P, j).v, At(P, i).v), VSub(At(P, j).r, At(P, i).r)))

(* C14. No interpenetration: at every committed event time every pair of   *)
(* bodies is at centre distance >= the sum of the radii, and right after a *)
(* committed pair event its two bodies are no longer approaching.          *)
NoInterpenetration ==
    (pc = "loop" /\ last.op \in {"wall_x", "wall_y", "pp"}) =>
        /\ \A i \in 0..(Len(P_) - 1) : \A j \in (i + 1)..(Len(P_) - 1) :
               Separate(P_, i, j)
        /\ last.op = "pp" => NotApproaching(P_, last.e.a, last.e.b)

(* The events a fresh seed of the bodies P at time t consists of: the wall *)
(* events of every body and one event per unordered pair, where the        *)
(* predicted time is finite and within the horizon.                        *)
SeedSet(P, t) ==
    LET N == 0..(Len(P) - 1)
        due(dt) == isfinite(dt) /\ RLe(RAdd(t, dt), cfg_.T_end)
    IN  {Event(RAdd(t, time_to_wall_x(At(P, i))), i, -1, "P_WALL_X",
               At(P, i).coll_count, -1) : i \in {k \in N : due(time_to_wall_x(At(P, k)))}}
        \cup
        {Event(RAdd(t, time_to_wall_y(At(P, i))), i, -1, "P_WALL_Y",
               At(P, i).coll_count, -1) : i \in {k \in N : due(time_to_wall_y(At(P, k)))}}
        \cup
        {Event(RAdd(t, time_to_pp(At(P, p[1]), At(P, p[2]))), p[1], p[2], "P_P",
               At(P, p[1]).coll_count, At(P, p[2]).coll_count) :
            p \in {c \in N \X N : c[1] < c[2] /\ due(time_to_pp(At(P, c[1]), At(P, c[2])))}}

(* C15. Successful undo reseeds atomically: an undo() that returns true    *)
(* removes exactly the most recent snapshot, and leaves as pending set      *)
(* exactly the fresh seed of the restored state at the restored time, each *)
(* event once and none of the earlier pending events besides.              *)
UndoReseeds ==
    [][last'.op = "undo_ok" =>
          /\ ret' = "true"
          /\ undo_ # <<>>
          /\ undo_' = SubSeq(undo_, 1, Len(undo_) - 1)
          /\ t_' = undo_[Len(undo_)].t
          /\ P_' = undo_[Len(undo_)].P
          /\ {pq_'[n] : n \in 1..Len(pq_')} = SeedSet(P_', t_')
          /\ Len(pq_') = Cardinality(SeedSet(P_', t_'))]_vars

(* C15 witness: undo() succeeded after a run that the cap had stopped with *)
(* events pending, and the pending set is the seed of the restored state.  *)
UndoneAfterCap ==
    /\ last.op = "undo_ok"
    /\ ret = "true"
    /\ capHit
    /\ runs = 1
    /\ Len(pq_) >= 2
    /\ \A n \in 1..Len(pq_) : pq_[n].collA = At(P_, pq_[n].a).coll_count

(* The snapshot that the n-th entry of pre stands for.                      *)
PreState(n) == SimState(pre[n].t, pre[n].P)

PendingNotPast == \A n \in 1..Len(pq_) : RLe(t_, pq_[n].t)

(* C18. Commit order and horizon: every committed event has a time >= the  *)
(* simulation time at the moment it is committed and <= the horizon, it is *)
(* applied at a simulation time equal to its scheduled time, and the       *)
(* simulation time moves backward only by undo().                          *)
CommitOrder ==
    /\ [][last'.op \in {"wall_x", "wall_y", "pp"} =>
              /\ RLe(t_, last'.e.t)
              /\ RLe(last'.e.t, cfg_.T_end)
              /\ t_' = last'.e.t]_vars
    /\ [][RLt(t_', t_) => last'.op = "undo_ok"]_vars

(* The counter of body i grows by d in the step.                           *)
CounterUp(i, d) == At(P_', i).coll_count = At(P_, i).coll_count + d

(* C19. Mutation counters: a committed wall event increases the counter of *)
(* its body by exactly one, a committed pair event increases the counters  *)
(* of both its bodies by exactly one, no other body's counter changes, and *)
(* a counter decreases only through a successful undo().                   *)
CountersCount ==
    /\ [][last'.op \in {"wall_x", "wall_y", "pp"} =>
              \A i \in 0..(Len(P_) - 1) :
                  IF i = last'.e.a \/ (last'.op = "pp" /\ i = last'.e.b)
                  THEN CounterUp(i, 1) ELSE CounterUp(i, 0)]_vars
    /\ [][(\E k \in 1..Len(P_) : P_'[k].coll_count < P_[k].coll_count)
              => last'.op = "undo_ok"]_vars

(* Body k after the step is body k before it, moved ballistically over the *)
(* time the step advanced.                                                 *)
Drifted(k) == [P_[k] EXCEPT !.r = VAdd(@, VScale(P_[k].v, RSub(t_', t_)))]

(* C20. Wall-bounce effect and frame: a committed wall-X (wall-Y) event of *)
(* body i negates the x (y) component of its velocity and adds one to its  *)
(* counter; apart from the ballistic drift of the positions it changes     *)
(* nothing else of body i and nothing of any other body; and no step       *)
(* changes a radius, a mass, the number of bodies or their order.          *)
WallBounceFrame ==
    /\ [][last'.op = "wall_x" =>
              \A k \in 1..Len(P_) :
                  P_'[k] = IF k = last'.e.a + 1
                           THEN [Drifted(k) EXCEPT !.v.x = RNeg(@),
                                                   !.coll_count = @ + 1]
                           ELSE Drifted(k)]_vars
    /\ [][last'.op = "wall_y" =>
              \A k \in 1..Len(P_) :
                  P_'[k] = IF k = last'.e.a + 1
                           THEN [Drifted(k) EXCEPT !.v.y = RNeg(@),
                                                   !.coll_count = @ + 1]
                           ELSE Drifted(k)]_vars
    /\ [][/\ Len(P_') = Len(P_)
          /\ \A k \in 1..Len(P_) : P_'[k].rad = P_[k].rad /\ P_'[k].m = P_[k].m]_vars

(* C20 witness: a wall-X event was committed on a body with both velocity  *)
(* components nonzero while another body drifted.                          *)
WallXBounced ==
    /\ last.op = "wall_x"
    /\ pre # <<>>
    /\ At(Before.P, last.e.a).v.x # Zero
    /\ At(Before.P, last.e.a).v.y # Zero
    /\ At(P_, last.e.a).v.x = RNeg(At(Before.P, last.e.a).v.x)
    /\ At(P_, last.e.a).v.y = At(Before.P, last.e.a).v.y
    /\ \E k \in 1..Len(P_) : k # last.e.a + 1 /\ P_[k].r # Before.P[k].r

====
